---- MODULE Spec2Model ----
(***************************************************************************)
(* Model of wagtail/api/v2/filters.py and wagtail/api/v2/pagination.py:    *)
(* one GET request is taken through the view's filter backends, in order,  *)
(* and then through WagtailPagination.  Parameter values are strings,      *)
(* modelled as sequences of one-character strings, so that int(), split()  *)
(* and lower() are computed and not assumed.                               *)
(***************************************************************************)
EXTENDS Integers, Sequences, FiniteSets, TLC

\* ------------------------------------------------------------------ bounds

\* The largest number of parameters in one query string.
MaxParams == 3

\* The largest number of registered construct_explorer_page_queryset hooks.
MaxHooks == 2

\* The largest number of field names a view declares as available.
MaxDeclared == 3

\* -------------------------------------------------------- python strings

Digits == {"0", "1", "2", "3", "4", "5", "6", "7", "8", "9"}

DigitVal(c) ==
    CASE c = "0" -> 0 [] c = "1" -> 1 [] c = "2" -> 2 [] c = "3" -> 3
      [] c = "4" -> 4 [] c = "5" -> 5 [] c = "6" -> 6 [] c = "7" -> 7
      [] c = "8" -> 8 [] c = "9" -> 9

RECURSIVE LStrip(_)
LStrip(s) == IF s # <<>> /\ Head(s) = " " THEN LStrip(Tail(s)) ELSE s

RECURSIVE RStrip(_)
RStrip(s) ==
    IF s # <<>> /\ s[Len(s)] = " " THEN RStrip(SubSeq(s, 1, Len(s) - 1)) ELSE s

\* str.strip(), which int() applies to its argument
Strip(s) == RStrip(LStrip(s))

\* the digits of a stripped literal, its sign removed
Unsigned(s) ==
    LET t == Strip(s)
    IN  IF t # <<>> /\ Head(t) \in {"+", "-"} THEN Tail(t) ELSE t

RECURSIVE DigitsVal(_)
DigitsVal(d) ==
    IF d = <<>> THEN 0
    ELSE 10 * DigitsVal(SubSeq(d, 1, Len(d) - 1)) + DigitVal(d[Len(d)])

\* int(s) does not raise ValueError
IsInt(s) ==
    LET d == Unsigned(s)
    IN  d # <<>> /\ \A i \in 1..Len(d) : d[i] \in Digits

\* int(s), for a string on which it does not raise
IntVal(s) ==
    LET t == Strip(s)
        v == DigitsVal(Unsigned(s))
    IN  IF Head(t) = "-" THEN 0 - v ELSE v

\* str.split(','): the tokens between the commas, empty ones included
RECURSIVE Split(_)
Split(s) ==
    IF \A i \in 1..Len(s) : s[i] # ","
    THEN <<s>>
    ELSE LET k == CHOOSE i \in 1..Len(s) :
                     s[i] = "," /\ \A j \in 1..(i - 1) : s[j] # ","
         IN  <<SubSeq(s, 1, k - 1)>> \o Split(SubSeq(s, k + 1, Len(s)))

LowerChar(c) ==
    CASE c = "T" -> "t" [] c = "R" -> "r" [] c = "U" -> "u" [] c = "E" -> "e"
      [] c = "F" -> "f" [] c = "A" -> "a" [] c = "L" -> "l" [] c = "S" -> "s"
      [] OTHER -> c

\* str.lower()
Lower(s) == [i \in 1..Len(s) |-> LowerChar(s[i])]

\* ------------------------------------------------------------- the pages

\* An attribute that was never set on an object is the empty set, one that
\* was set is the singleton of its value (hasattr is non-emptiness).
NoAttr == {}

Attr(v) == {v}

AttrValue(a) == CHOOSE v \in a : TRUE

\* The page tree: 1 is the root node, 2 and 5 are the root pages of the
\* two sites, 3 is a child of 2 and 4 a child of 3.
Pages == {1, 2, 3, 4, 5}

ParentOf(p) == CASE p = 1 -> 0 [] p = 2 -> 1 [] p = 3 -> 2 [] p = 4 -> 3 [] p = 5 -> 1

RECURSIVE IsDescendant(_, _)
\* p lies strictly below a in the tree
IsDescendant(p, a) ==
    IF ParentOf(p) = 0 THEN FALSE
    ELSE ParentOf(p) = a \/ IsDescendant(ParentOf(p), a)

\* Page.get_first_root_node()
FirstRootNode == CHOOSE p \in Pages : ParentOf(p) = 0

Sites == {"siteA", "siteB"}

\* site.root_page
SiteRootPage(site) == IF site = "siteA" THEN 2 ELSE 5

\* Two titles are shared by two pages each, so an ordering by title has ties.
TitleOf(p) ==
    CASE p = 1 -> <<"B">> [] p = 2 -> <<"A">> [] p = 3 -> <<"C">>
      [] p = 4 -> <<"A">> [] p = 5 -> <<"B">>

TagsOf(p) ==
    CASE p = 2 -> {<<"b">>} [] p = 3 -> {<<"a">>, <<"b">>} [] p = 4 -> {<<"a">>}
      [] OTHER -> {}

Live(p) == p \in {2, 3, 5}

\* The collation of the one-letter titles.
CharRank(c) == CASE c = "A" -> 1 [] c = "B" -> 2 [] c = "C" -> 3 [] OTHER -> 0

\* ------------------------------------------------------- the view's fields

\* view.get_available_fields(model, ...): the view of the test suite
\* returns the same list whatever db_fields_only is.
AvailableFields == <<"id", "title", "live", "tags">>

AvailableFieldSet == {AvailableFields[i] : i \in 1..Len(AvailableFields)}

\* model._meta.get_field(name): the kind of the field
FieldKind(f) ==
    CASE f = "id" -> "integer" [] f = "live" -> "boolean"
      [] f = "tags" -> "tag" [] OTHER -> "generic"

\* The value of a scalar field of a page, as the lookup compares it.
FieldValue(p, f) ==
    CASE f = "id" -> p [] f = "live" -> Live(p) [] f = "title" -> TitleOf(p)

\* The sort key of a scalar field.
SortKey(p, f) ==
    CASE f = "id" -> p [] f = "live" -> (IF Live(p) THEN 1 ELSE 0)
      [] f = "title" -> CharRank(TitleOf(p)[1])

\* ------------------------------------------------------------ request.GET

\* A query string is a sequence of <<name, value>> pairs.
\* name in request.GET
Has(GET, name) == \E i \in 1..Len(GET) : GET[i][1] = name

\* request.GET[name]
Param(GET, name) == GET[CHOOSE i \in 1..Len(GET) : GET[i][1] = name][2]

\* request.GET.get(name, default)
ParamOr(GET, name, default) == IF Has(GET, name) THEN Param(GET, name) ELSE default

\* ------------------------------------------------------- the query object

\* A query: the pages it selects, its ORDER BY (<<"?">> is a random order),
\* the direction (reverse() flips standard_ordering), the fields its WHERE
\* clause names, whether it is a search result in relevance order, and the
\* two attributes the filters hang on the object.
BaseQuerySet ==
    [ids |-> Pages, order_by |-> <<"id">>, standard_ordering |-> TRUE,
     where |-> {}, relevance |-> FALSE,
     filtered_by_tag |-> NoAttr, filtered_by_child_of |-> NoAttr]

\* QuerySet._clone(): every narrowing or ordering method returns a new
\* object, which has none of the attributes set on the old one from outside.
Clone(qs) ==
    [qs EXCEPT !.filtered_by_tag = NoAttr, !.filtered_by_child_of = NoAttr]

\* queryset.filter(**{field_name: value})
FilterEquals(qs, f, v) ==
    [Clone(qs) EXCEPT !.ids = {p \in qs.ids : FieldValue(p, f) = v},
                      !.where = qs.where \cup {f}]

\* queryset.filter(**{field_name + '__name': tag})
FilterHasTag(qs, f, tag) ==
    [Clone(qs) EXCEPT !.ids = {p \in qs.ids : tag \in TagsOf(p)},
                      !.where = qs.where \cup {f}]

\* queryset.order_by(field) replaces the ORDER BY and keeps the direction
OrderBy(qs, f) == [Clone(qs) EXCEPT !.order_by = <<f>>]

\* Reverse that leaves the direction as it is.
Reverse_Noop(qs) == Clone(qs)

\* queryset.reverse()
Reverse(qs) == [Clone(qs) EXCEPT !.standard_ordering = ~qs.standard_ordering]

\* queryset.child_of(page): the direct children
ChildOf(qs, page) ==
    [Clone(qs) EXCEPT !.ids = {p \in qs.ids : ParentOf(p) = page},
                      !.where = qs.where \cup {"path"}]

\* queryset.descendant_of(page): the subtree below the page, the page excluded
DescendantOf(qs, page) ==
    [Clone(qs) EXCEPT !.ids = {p \in qs.ids : IsDescendant(p, page)},
                      !.where = qs.where \cup {"path"}]

\* queryset.count()
Count(qs) == Cardinality(qs.ids)

RECURSIVE Perms(_)
\* The sequences that list every element of S once.
Perms(S) ==
    IF S = {} THEN {<<>>}
    ELSE UNION {{<<x>> \o r : r \in Perms(S \ {x})} : x \in S}

\* r lists its pages by ascending (up) or descending key f
Sorted(r, f, up) ==
    \A i \in 1..(Len(r) - 1) :
        IF up THEN SortKey(r[i], f) <= SortKey(r[i + 1], f)
        ELSE SortKey(r[i], f) >= SortKey(r[i + 1], f)

\* The row sequences the database may return for the query: rows with equal
\* keys come in any order, a random or relevance order is any order.
Rows(qs) ==
    IF qs.relevance \/ qs.order_by = <<"?">> THEN Perms(qs.ids)
    ELSE {r \in Perms(qs.ids) : Sorted(r, qs.order_by[1], qs.standard_ordering)}

\* rows[start:stop], for 0 <= start <= stop
Slice(rows, start, stop) ==
    IF start >= Len(rows) THEN <<>>
    ELSE SubSeq(rows, start + 1, IF stop < Len(rows) THEN stop ELSE Len(rows))

\* ------------------------------------------------------------ the errors

\* No BadRequestError was raised.
NoError == [by |-> "", msg |-> <<>>]

\* BadRequestError(msg), raised by backend `by`; msg is the format string
\* followed by its arguments.
BadRequest(by, msg) == [by |-> by, msg |-> msg]

\* The spelling of the names that parameter values are compared with.
Chars(name) ==
    CASE name = "id" -> <<"i", "d">>
      [] name = "title" -> <<"t", "i", "t", "l", "e">>
      [] name = "tags" -> <<"t", "a", "g", "s">>
      [] name = "live" -> <<"l", "i", "v", "e">>
      [] name = "random" -> <<"r", "a", "n", "d", "o", "m">>
      [] name = "root" -> <<"r", "o", "o", "t">>
      [] name = "true" -> <<"t", "r", "u", "e">>
      [] name = "false" -> <<"f", "a", "l", "s", "e">>

\* --------------------------------------------------------- FieldsFilter

\* utils.parse_boolean(value) does not raise ValueError
IsBoolean(v) ==
    Lower(v) \in {Chars("true"), <<"1">>, Chars("false"), <<"0">>}

\* utils.parse_boolean(value)
ParseBoolean(v) == Lower(v) \in {Chars("true"), <<"1">>}

\* The tag constraints of one parameter: one filter() per token of the value.
RECURSIVE FilterTags(_, _, _)
FilterTags(qs, f, tokens) ==
    IF tokens = <<>> THEN qs
    ELSE FilterTags(FilterHasTag(qs, f, Head(tokens)), f, Tail(tokens))

\* The body of the loop of FieldsFilter.filter_queryset for one parameter.
\* st is [error, queryset]; an error ends the loop.
FieldsFilterParam(st, name, value) ==
    IF st.error # NoError \/ name \notin AvailableFieldSet THEN st
    ELSE LET kind == FieldKind(name)
             qs == st.queryset
         IN  CASE kind = "boolean" ->
                    IF IsBoolean(value)
                    THEN [st EXCEPT !.queryset = FilterEquals(qs, name, ParseBoolean(value))]
                    ELSE [st EXCEPT !.error =
                             BadRequest("FieldsFilter",
                                 <<"field filter error. '%s' is not a valid value for %s (%s)",
                                   value, name, "expected 'true' or 'false'">>)]
               [] kind = "integer" ->
                    IF IsInt(value)
                    THEN [st EXCEPT !.queryset = FilterEquals(qs, name, IntVal(value))]
                    ELSE [st EXCEPT !.error =
                             BadRequest("FieldsFilter",
                                 <<"field filter error. '%s' is not a valid value for %s (%s)",
                                   value, name, "invalid literal for int() with base 10">>)]
               [] kind = "tag" ->
                    [st EXCEPT !.queryset =
                        [FilterTags(qs, name, Split(value)) EXCEPT !.filtered_by_tag = Attr(TRUE)]]
               [] OTHER ->
                    [st EXCEPT !.queryset = FilterEquals(qs, name, value)]

RECURSIVE FieldsFilterLoop(_, _, _)
\* for field_name, value in request.GET.items(), from parameter i on
FieldsFilterLoop(st, GET, i) ==
    IF i > Len(GET) THEN st
    ELSE FieldsFilterLoop(FieldsFilterParam(st, GET[i][1], GET[i][2]), GET, i + 1)

\* FieldsFilter.filter_queryset(request, queryset, view)
FieldsFilterResult(GET, qs) ==
    FieldsFilterLoop([error |-> NoError, queryset |-> qs], GET, 1)

\* ------------------------------------------------------- OrderingFilter

\* order_by in view.get_available_fields(queryset.model)
IsAvailableField(chars) == \E f \in AvailableFieldSet : Chars(f) = chars

FieldNamed(chars) == CHOOSE f \in AvailableFieldSet : Chars(f) = chars

\* OrderingFilterResult that looks at the value of `offset`, not at its
\* presence: a random order is refused for a positive offset only.
OrderingFilterResult_OffsetValue(GET, qs) ==
    IF ~Has(GET, "order") THEN [error |-> NoError, queryset |-> qs]
    ELSE LET order_by == Param(GET, "order")
             reverse_order == order_by # <<>> /\ Head(order_by) = "-"
             name == IF reverse_order THEN Tail(order_by) ELSE order_by
         IN  IF order_by = Chars("random")
             THEN IF Has(GET, "offset") /\ IsInt(Param(GET, "offset"))
                     /\ IntVal(Param(GET, "offset")) > 0
                  THEN [error |-> BadRequest("OrderingFilter",
                                     <<"random ordering with offset is not supported">>),
                        queryset |-> qs]
                  ELSE [error |-> NoError, queryset |-> OrderBy(qs, "?")]
             ELSE IF ~IsAvailableField(name)
                  THEN [error |-> BadRequest("OrderingFilter",
                                     <<"cannot order by '%s' (unknown field)", name>>),
                        queryset |-> qs]
                  ELSE LET ordered == OrderBy(qs, FieldNamed(name))
                       IN  [error |-> NoError,
                            queryset |-> IF reverse_order THEN Reverse(ordered) ELSE ordered]

\* OrderingFilter.filter_queryset(request, queryset, view)
OrderingFilterResult(GET, qs) ==
    IF ~Has(GET, "order") THEN [error |-> NoError, queryset |-> qs]
    ELSE LET order_by == Param(GET, "order")
             reverse_order == order_by # <<>> /\ Head(order_by) = "-"
             name == IF reverse_order THEN Tail(order_by) ELSE order_by
         IN  IF order_by = Chars("random")
             THEN IF Has(GET, "offset")
                  THEN [error |-> BadRequest("OrderingFilter",
                                     <<"random ordering with offset is not supported">>),
                        queryset |-> qs]
                  ELSE [error |-> NoError, queryset |-> OrderBy(qs, "?")]
             ELSE IF ~IsAvailableField(name)
                  THEN [error |-> BadRequest("OrderingFilter",
                                     <<"cannot order by '%s' (unknown field)", name>>),
                        queryset |-> qs]
                  ELSE LET ordered == OrderBy(qs, FieldNamed(name))
                       IN  [error |-> NoError,
                            queryset |-> IF reverse_order THEN Reverse(ordered) ELSE ordered]

\* --------------------------------------------------------- SearchFilter

\* What the search backend makes of a query: it returns results, or
\* refuses a field of the WHERE clause that its index does not cover, or,
\* when asked to keep the query's order, the field of the ORDER BY.
SearchOutcomes(qs, order_by_relevance) ==
    {[kind |-> "results", field |-> ""]}
      \cup {[kind |-> "FilterFieldError", field |-> f] : f \in qs.where}
      \cup (IF order_by_relevance THEN {}
            ELSE {[kind |-> "OrderByFieldError", field |-> qs.order_by[1]]})

\* The pages a search text matches: those whose title is the text.
SearchMatches(text, p) == TitleOf(p) = text

\* sb.search(search_query, queryset, operator=..., order_by_relevance=...)
SearchResults(qs, text, order_by_relevance) ==
    [Clone(qs) EXCEPT !.ids = {p \in qs.ids : SearchMatches(text, p)},
                      !.relevance = order_by_relevance]

\* SearchFilter.filter_queryset(request, queryset, view); calls lists the
\* calls made to the search backend.
SearchFilterResult(GET, qs, search_enabled, outcome) ==
    LET none == [error |-> NoError, queryset |-> qs, calls |-> <<>>]
    IN  IF ~Has(GET, "search") THEN none
        ELSE IF ~search_enabled
        THEN [none EXCEPT !.error = BadRequest("SearchFilter", <<"search is disabled">>)]
        ELSE IF qs.filtered_by_tag # NoAttr /\ AttrValue(qs.filtered_by_tag)
        THEN [none EXCEPT !.error =
                 BadRequest("SearchFilter",
                     <<"filtering by tag with a search query is not supported">>)]
        ELSE LET search_query == Param(GET, "search")
                 search_operator == ParamOr(GET, "search_operator", <<>>)
                 order_by_relevance == ~Has(GET, "order")
                 call == [query |-> search_query, operator |-> search_operator,
                          order_by_relevance |-> order_by_relevance]
             IN  CASE outcome.kind = "FilterFieldError" ->
                        [error |-> BadRequest("SearchFilter",
                             <<"cannot filter by '{}' while searching (field is not indexed)",
                               outcome.field>>),
                         queryset |-> qs, calls |-> <<call>>]
                   [] outcome.kind = "OrderByFieldError" ->
                        [error |-> BadRequest("SearchFilter",
                             <<"cannot order by '{}' while searching (field is not indexed)",
                               outcome.field>>),
                         queryset |-> qs, calls |-> <<call>>]
                   [] OTHER ->
                        [error |-> NoError,
                         queryset |-> SearchResults(qs, search_query, order_by_relevance),
                         calls |-> <<call>>]

\* ---------------------------------------------------- the tree filters

\* pages_for_site(site): the site's root page and the pages below it
PagesForSite(site) ==
    {p \in Pages : p = SiteRootPage(site) \/ IsDescendant(p, SiteRootPage(site))}

\* get_root_page(request) of the filter and of its restricted subclass
GetRootPage(restricted, site) ==
    IF restricted THEN SiteRootPage(site) ELSE FirstRootNode

\* PageScope without the override of the restricted filters.
PageScope_Unrestricted(restricted, site) == Pages

\* The pages get_page_by_id(request, page_id) searches.
PageScope(restricted, site) == IF restricted THEN PagesForSite(site) ELSE Pages

\* ResolvePage without the check for a negative id: it is looked up.
ResolvePage_NoNegativeCheck(restricted, site, value, by, param, missing) ==
    IF IsInt(value)
    THEN IF IntVal(value) \in PageScope(restricted, site)
         THEN [error |-> NoError, page |-> Attr(IntVal(value)),
               lookups |-> <<IntVal(value)>>]
         ELSE [error |-> BadRequest(by, <<missing>>), page |-> NoAttr,
               lookups |-> <<IntVal(value)>>]
    ELSE IF value = Chars("root")
         THEN [error |-> NoError, page |-> Attr(GetRootPage(restricted, site)),
               lookups |-> <<>>]
         ELSE [error |-> BadRequest(by, <<"{} must be a positive integer", param>>),
               page |-> NoAttr, lookups |-> <<>>]

\* The try/except of ChildOfFilter and DescendantOfFilter: the page the
\* parameter names, or the error; lookups lists the ids looked up.
ResolvePage(restricted, site, value, by, param, missing) ==
    IF IsInt(value) /\ IntVal(value) >= 0
    THEN IF IntVal(value) \in PageScope(restricted, site)
         THEN [error |-> NoError, page |-> Attr(IntVal(value)),
               lookups |-> <<IntVal(value)>>]
         ELSE [error |-> BadRequest(by, <<missing>>), page |-> NoAttr,
               lookups |-> <<IntVal(value)>>]
    ELSE IF value = Chars("root")
         THEN [error |-> NoError, page |-> Attr(GetRootPage(restricted, site)),
               lookups |-> <<>>]
         ELSE [error |-> BadRequest(by, <<"{} must be a positive integer", param>>),
               page |-> NoAttr, lookups |-> <<>>]

\* ChildOfFilterResult with the two statements after the try block swapped:
\* the attribute is set on the old query object, child_of() returns a new one.
ChildOfFilterResult_AnnotateFirst(restricted, GET, qs, site) ==
    IF ~Has(GET, "child_of")
    THEN [error |-> NoError, queryset |-> qs, lookups |-> <<>>]
    ELSE LET by == IF restricted THEN "RestrictedChildOfFilter" ELSE "ChildOfFilter"
             r == ResolvePage(restricted, site, Param(GET, "child_of"), by,
                              "child_of", "parent page doesn't exist")
         IN  IF r.error # NoError
             THEN [error |-> r.error, queryset |-> qs, lookups |-> r.lookups]
             ELSE [error |-> NoError,
                   queryset |-> ChildOf([qs EXCEPT !.filtered_by_child_of = r.page],
                                        AttrValue(r.page)),
                   lookups |-> r.lookups]

\* ChildOfFilter.filter_queryset, and RestrictedChildOfFilter's
ChildOfFilterResult(restricted, GET, qs, site) ==
    IF ~Has(GET, "child_of")
    THEN [error |-> NoError, queryset |-> qs, lookups |-> <<>>]
    ELSE LET by == IF restricted THEN "RestrictedChildOfFilter" ELSE "ChildOfFilter"
             r == ResolvePage(restricted, site, Param(GET, "child_of"), by,
                              "child_of", "parent page doesn't exist")
         IN  IF r.error # NoError
             THEN [error |-> r.error, queryset |-> qs, lookups |-> r.lookups]
             ELSE [error |-> NoError,
                   queryset |-> [ChildOf(qs, AttrValue(r.page))
                                    EXCEPT !.filtered_by_child_of = r.page],
                   lookups |-> r.lookups]

\* DescendantOfFilter.filter_queryset, and RestrictedDescendantOfFilter's
DescendantOfFilterResult(restricted, GET, qs, site) ==
    IF ~Has(GET, "descendant_of")
    THEN [error |-> NoError, queryset |-> qs, lookups |-> <<>>]
    ELSE LET by == IF restricted THEN "RestrictedDescendantOfFilter"
                   ELSE "DescendantOfFilter"
             r == ResolvePage(restricted, site, Param(GET, "descendant_of"), by,
                              "descendant_of", "ancestor page doesn't exist")
         IN  IF qs.filtered_by_child_of # NoAttr
             THEN [error |-> BadRequest(by,
                                <<"filtering by {} with child_of is not supported",
                                  "descendant_of">>),
                   queryset |-> qs, lookups |-> <<>>]
             ELSE IF r.error # NoError
             THEN [error |-> r.error, queryset |-> qs, lookups |-> r.lookups]
             ELSE [error |-> NoError,
                   queryset |-> DescendantOf(qs, AttrValue(r.page)),
                   lookups |-> r.lookups]

\* ----------------------------------------------------- ForExplorerFilter

\* The hooks that may be registered for construct_explorer_page_queryset.
HookIds == 1..MaxHooks

\* hooks.get_hooks('construct_explorer_page_queryset'): the registered hooks
\* in registration order, each registered at most once here.
HookLists ==
    UNION {{h \in [1..n -> HookIds] : \A i, j \in 1..n : h[i] = h[j] => i = j}
           : n \in 0..MaxHooks}

\* hook(parent_page, queryset, request): a hook narrows the query; hook h
\* hides from the explorer the page whose id is 3 - h more than the parent's.
ApplyHook(h, parent_page, qs) ==
    [Clone(qs) EXCEPT !.ids = {p \in qs.ids : p # parent_page + 3 - h}]

RECURSIVE RunHooks_NoAssign(_, _, _, _)
\* RunHooks with the hook's return value dropped: every hook is given the
\* query the filter received, which is also what the filter returns.
RunHooks_NoAssign(hooks, parent_page, qs, calls) ==
    IF hooks = <<>> THEN [queryset |-> qs, calls |-> calls]
    ELSE RunHooks_NoAssign(Tail(hooks), parent_page, qs,
                           Append(calls, [hook |-> Head(hooks),
                                          parent_page |-> parent_page,
                                          queryset |-> qs]))

RECURSIVE RunHooks(_, _, _, _)
\* for hook in hooks: queryset = hook(parent_page, queryset, request);
\* calls lists, per call, the hook, the parent and the query it was given.
RunHooks(hooks, parent_page, qs, calls) ==
    IF hooks = <<>> THEN [queryset |-> qs, calls |-> calls]
    ELSE RunHooks(Tail(hooks), parent_page, ApplyHook(Head(hooks), parent_page, qs),
                  Append(calls, [hook |-> Head(hooks), parent_page |-> parent_page,
                                 queryset |-> qs]))

\* ForExplorerFilter.filter_queryset(request, queryset, view), with `hooks`
\* registered; got_hooks tells whether get_hooks() was called.
ForExplorerFilterResult(GET, qs, hooks) ==
    IF ~Has(GET, "for_explorer") \/ Param(GET, "for_explorer") = <<>>
    THEN [error |-> NoError, queryset |-> qs, calls |-> <<>>, got_hooks |-> FALSE]
    ELSE IF qs.filtered_by_child_of = NoAttr
    THEN [error |-> BadRequest("ForExplorerFilter",
                       <<"filtering by for_explorer without child_of is not supported">>),
          queryset |-> qs, calls |-> <<>>, got_hooks |-> FALSE]
    ELSE LET r == RunHooks(hooks, AttrValue(qs.filtered_by_child_of), qs, <<>>)
         IN  [error |-> NoError, queryset |-> r.queryset, calls |-> r.calls,
              got_hooks |-> TRUE]

\* ----------------------------------------------------- WagtailPagination

\* A value of the WAGTAILAPI_LIMIT_MAX setting: None or an integer.
PyNone == [none |-> TRUE, val |-> 0]

PyInt(n) == [none |-> FALSE, val |-> n]

\* bool(value)
Truthy(v) == ~v.none /\ v.val # 0

\* The limit_max that holds when settings.py does not define the setting.
DefaultLimitMax == 20

\* The limit of a request without `limit`, unless limit_max is lower.
DefaultLimit == 20

\* getattr(settings, 'WAGTAILAPI_LIMIT_MAX', 20)
LimitMax(setting) ==
    IF setting = NoAttr THEN PyInt(DefaultLimitMax) ELSE AttrValue(setting)

Min(a, b) == IF a < b THEN a ELSE b

\* LimitDefault without the configured maximum: always 20.
LimitDefault_Always20(limit_max) == DefaultLimit

\* limit_default = 20 if not limit_max else min(20, limit_max)
LimitDefault(limit_max) ==
    IF ~Truthy(limit_max) THEN DefaultLimit ELSE Min(DefaultLimit, limit_max.val)

\* int(request.GET.get(name, default)) with the check for a negative value:
\* the integer, or no value where the code raises ValueError
ParseCount(GET, name, default) ==
    IF ~Has(GET, name)
    THEN (IF default < 0 THEN NoAttr ELSE Attr(default))
    ELSE IF IsInt(Param(GET, name)) /\ IntVal(Param(GET, name)) >= 0
         THEN Attr(IntVal(Param(GET, name)))
         ELSE NoAttr

\* PaginateResult with the two try blocks in the other order, and the
\* maximum compared with >=.
PaginateResult_LimitFirst(GET, qs, setting) ==
    LET limit_max == LimitMax(setting)
        offset == ParseCount(GET, "offset", 0)
        limit == ParseCount(GET, "limit", LimitDefault(limit_max))
        none == [error |-> NoError, start |-> 0, stop |-> 0, total_count |-> NoAttr]
    IN  IF limit = NoAttr
        THEN [none EXCEPT !.error =
                 BadRequest("WagtailPagination",
                     <<"{} must be a positive integer", "limit">>)]
        ELSE IF offset = NoAttr
        THEN [none EXCEPT !.error =
                 BadRequest("WagtailPagination",
                     <<"{} must be a positive integer", "offset">>)]
        ELSE IF Truthy(limit_max) /\ AttrValue(limit) >= limit_max.val
        THEN [none EXCEPT !.error =
                 BadRequest("WagtailPagination",
                     <<"limit cannot be higher than %d", limit_max.val>>)]
        ELSE [error |-> NoError, start |-> AttrValue(offset),
              stop |-> AttrValue(offset) + AttrValue(limit),
              total_count |-> Attr(Count(qs))]

\* PaginateResult with the count taken from the sliced query.
PaginateResult_CountAfterSlice(GET, qs, setting) ==
    LET limit_max == LimitMax(setting)
        offset == ParseCount(GET, "offset", 0)
        limit == ParseCount(GET, "limit", LimitDefault(limit_max))
        none == [error |-> NoError, start |-> 0, stop |-> 0, total_count |-> NoAttr]
    IN  IF offset = NoAttr
        THEN [none EXCEPT !.error =
                 BadRequest("WagtailPagination",
                     <<"{} must be a positive integer", "offset">>)]
        ELSE IF limit = NoAttr
        THEN [none EXCEPT !.error =
                 BadRequest("WagtailPagination",
                     <<"{} must be a positive integer", "limit">>)]
        ELSE IF Truthy(limit_max) /\ AttrValue(limit) > limit_max.val
        THEN [none EXCEPT !.error =
                 BadRequest("WagtailPagination",
                     <<"limit cannot be higher than %d", limit_max.val>>)]
        ELSE [error |-> NoError, start |-> AttrValue(offset),
              stop |-> AttrValue(offset) + AttrValue(limit),
              total_count |->
                  Attr(IF Count(qs) <= AttrValue(offset) THEN 0
                       ELSE Min(AttrValue(limit), Count(qs) - AttrValue(offset)))]

\* WagtailPagination.paginate_queryset(queryset, request, view) up to the
\* count: the error, or the slice bounds and the count stored on the paginator
PaginateResult(GET, qs, setting) ==
    LET limit_max == LimitMax(setting)
        offset == ParseCount(GET, "offset", 0)
        limit == ParseCount(GET, "limit", LimitDefault(limit_max))
        none == [error |-> NoError, start |-> 0, stop |-> 0, total_count |-> NoAttr]
    IN  IF offset = NoAttr
        THEN [none EXCEPT !.error =
                 BadRequest("WagtailPagination",
                     <<"{} must be a positive integer", "offset">>)]
        ELSE IF limit = NoAttr
        THEN [none EXCEPT !.error =
                 BadRequest("WagtailPagination",
                     <<"{} must be a positive integer", "limit">>)]
        ELSE IF Truthy(limit_max) /\ AttrValue(limit) > limit_max.val
        THEN [none EXCEPT !.error =
                 BadRequest("WagtailPagination",
                     <<"limit cannot be higher than %d", limit_max.val>>)]
        ELSE [error |-> NoError, start |-> AttrValue(offset),
              stop |-> AttrValue(offset) + AttrValue(limit),
              total_count |-> Attr(Count(qs))]

\* ------------------------------------------------------------ the requests

\* The parameters of the API, the view's fields first.
ParamNames ==
    <<"tags", "title", "live", "id", "order", "search", "search_operator",
      "child_of", "descendant_of", "for_explorer", "offset">>

ParamIndex(name) == CHOOSE i \in 1..Len(ParamNames) : ParamNames[i] = name

\* The values a request to the filter backends is given for each parameter.
ParamValues(name) ==
    CASE name = "tags" -> {<<"a">>, <<"a", ",", "b">>}
      [] name = "title" -> {<<"A">>}
      [] name = "live" -> {<<"T", "r", "u", "e">>, <<"n", "o">>}
      [] name = "id" -> {<<"3">>, <<"x">>}
      [] name = "order" ->
            {Chars("random"), Chars("title"), <<"-">> \o Chars("title"),
             <<"-">> \o Chars("id"), Chars("live"), <<"-", "-">> \o Chars("title")}
      [] name = "search" -> {<<"A">>, <<>>}
      [] name = "search_operator" -> {<<"o", "r">>}
      [] name = "child_of" ->
            {Chars("root"), <<"3">>, <<"9">>, <<"-", "1">>, <<"x">>}
      [] name = "descendant_of" ->
            {Chars("root"), <<" ", "2">>, <<"0">>, <<"-", "1">>, <<"1", ".", "0">>}
      [] name = "for_explorer" -> {<<"1">>, <<>>}
      [] name = "offset" -> {<<"0">>, <<"x">>}

\* The sets of at most MaxParams parameter names.
NameSets ==
    {S \in SUBSET {ParamNames[i] : i \in 1..Len(ParamNames)} :
        Cardinality(S) <= MaxParams}

\* The orders in which a query string lists the names of S: the field
\* parameters come in any order (FieldsFilter applies them in that order),
\* the others, which the code looks up by name, in the order of ParamNames.
NameOrders(S) ==
    {o \in Perms(S) :
        \A i, j \in 1..Len(o) :
            i < j => \/ o[i] \in AvailableFieldSet /\ o[j] \in AvailableFieldSet
                     \/ ParamIndex(o[i]) < ParamIndex(o[j])}

RECURSIVE Assignments(_)
\* The query strings that list the names o in this order.
Assignments(o) ==
    IF o = <<>> THEN {<<>>}
    ELSE {<<<<Head(o), v>>>> \o rest :
            v \in ParamValues(Head(o)), rest \in Assignments(Tail(o))}

Requests == UNION {UNION {Assignments(o) : o \in NameOrders(S)} : S \in NameSets}

\* Filters(GET): the request as the paginator reads it, which is its
\* `offset` and `limit`, in either order.
OffsetValues ==
    {<<"0">>, <<"1">>, <<"4">>, <<"7">>, <<"-", "1">>, <<"x">>}

LimitValues ==
    {<<"0">>, <<"2">>, <<"2", "0">>, <<"2", "1">>, <<"+", "3">>, <<"-", "2">>, <<>>}

PaginationRequests ==
    {<<>>}
      \cup {<<<<"offset", o>>>> : o \in OffsetValues}
      \cup {<<<<"limit", l>>>> : l \in LimitValues}
      \cup {<<<<"offset", o>>, <<"limit", l>>>> : o \in OffsetValues, l \in LimitValues}
      \cup {<<<<"limit", l>>, <<"offset", o>>>> : o \in OffsetValues, l \in LimitValues}

\* The queries the filter backends may hand to the paginator: any pages, in
\* the view's order, in an order OrderingFilter set, or in relevance order.
FilteredQuerySets ==
    {[BaseQuerySet EXCEPT !.ids = ids, !.order_by = o.order_by,
                          !.standard_ordering = o.standard_ordering,
                          !.relevance = o.relevance] :
        ids \in SUBSET Pages,
        o \in {[order_by |-> <<"id">>, standard_ordering |-> TRUE, relevance |-> FALSE],
               [order_by |-> <<"title">>, standard_ordering |-> TRUE, relevance |-> FALSE],
               [order_by |-> <<"title">>, standard_ordering |-> FALSE, relevance |-> FALSE],
               [order_by |-> <<"id">>, standard_ordering |-> FALSE, relevance |-> FALSE],
               [order_by |-> <<"?">>, standard_ordering |-> TRUE, relevance |-> FALSE],
               [order_by |-> <<"id">>, standard_ordering |-> TRUE, relevance |-> TRUE]}}

\* The filter backends of the two kinds of view, in the order they run.
FilterBackends ==
    {<<"FieldsFilter", "ChildOfFilter", "DescendantOfFilter",
       "ForExplorerFilter", "OrderingFilter", "SearchFilter">>,
     <<"FieldsFilter", "RestrictedChildOfFilter", "RestrictedDescendantOfFilter",
       "ForExplorerFilter", "OrderingFilter", "SearchFilter">>}

\* The values of the two settings: not defined, or defined as one of these.
SearchEnabledSettings == {NoAttr, Attr(TRUE), Attr(FALSE)}

\* A maximum of None or 0 is no maximum to `if limit_max`.
LimitMaxSettings ==
    {NoAttr, Attr(PyNone), Attr(PyInt(0)), Attr(PyInt(2)), Attr(PyInt(30))}

\* ------------------------------------------------------- the state machine

\* ------------------------------------------------- schema introspection

\* The names a view can declare: the fields of the model and one name the
\* serializer computes, which no storage column backs.
DeclarableNames == AvailableFieldSet \cup {"detail_url"}

\* model._meta.get_field(name) finds a field of the model
IsDbField(f) == f \in {"id", "title", "live", "tags"}

\* A view: view.model (NoAttr: none) and the names it declares, in order.
Views ==
    [model : {NoAttr, Attr("Page")},
     available_fields : UNION {[1..n -> DeclarableNames] : n \in 0..MaxDeclared}]

\* The view of the pages listing.
PagesView == [model |-> Attr("Page"), available_fields |-> AvailableFields]

\* view.get_available_fields(model, db_fields_only): the declared names,
\* in the declared order, without those no storage column backs when
\* db_fields_only is set.
GetAvailableFields(v, db_fields_only) ==
    IF db_fields_only THEN SelectSeq(v.available_fields, IsDbField)
    ELSE v.available_fields

\* utils.get_schema_cls(field)
GetSchemaCls(kind) ==
    CASE kind = "integer" -> "Integer" [] kind = "boolean" -> "Boolean"
      [] OTHER -> "String"

\* The coreapi.Field get_schema_fields appends for one field name.
SchemaField(field_name) ==
    LET description ==
            IF FieldKind(field_name) = "tag"
            THEN "Filter results using a comma-separated list of tags."
            ELSE "Filter results using an exact match."
    IN  [name |-> field_name, required |-> FALSE, location |-> "query",
         schema |-> [cls |-> GetSchemaCls(FieldKind(field_name)),
                     title |-> field_name, description |-> description]]

\* FieldsFilter.get_schema_fields(view): the lists it can return. The
\* names are put in a set() and the loop runs over the set, so they come in
\* the order of their hashes, which for strings changes from one
\* interpreter process to the next: any order of the set is possible.
SchemaFieldsResults(v) ==
    IF v.model = NoAttr THEN {<<>>}
    ELSE LET avail == GetAvailableFields(v, TRUE)
             fields == {avail[i] : i \in 1..Len(avail)}
         IN  {[i \in 1..Len(o) |-> SchemaField(o[i])] : o \in Perms(fields)}

VARIABLES
    GET,              \* request.GET
    site,             \* request.site
    filter_backends,  \* view.filter_backends
    pc,               \* "filter", "paginate", "respond", "done", "rejected", "schema"
    backend,          \* the index of the filter backend that runs next
    queryset,         \* the query handed from backend to backend
    error,            \* the BadRequestError that ended the request
    settings,         \* the settings the request has read (NoAttr: none yet)
    hooks,            \* the hooks get_hooks() returned to ForExplorerFilter
    search_calls,     \* the calls made to the search backend
    lookups,          \* the page ids get_page_by_id was called with
    hook_calls,       \* the calls made to the explorer hooks
    paginator,        \* self.total_count and the slice bounds of the paginator
    data,             \* the rows of queryset[start:stop]
    response,         \* the envelope of get_paginated_response
    view,             \* the view: its model and the field names it declares
    schema_fields     \* the list get_schema_fields returned (NoAttr: not called)

vars ==
    <<GET, site, filter_backends, pc, backend, queryset, error, settings, hooks,
      search_calls, lookups, hook_calls, paginator, data, response, view,
      schema_fields>>

Init ==
    /\ GET \in Requests
    /\ site \in Sites
    /\ filter_backends \in FilterBackends
    /\ pc = "filter"
    /\ backend = 1
    /\ queryset = BaseQuerySet
    /\ error = NoError
    /\ settings = [search_enabled |-> NoAttr, limit_max |-> NoAttr]
    /\ hooks = <<>>
    /\ search_calls = <<>>
    /\ lookups = <<>>
    /\ hook_calls = <<>>
    /\ paginator = [total_count |-> NoAttr, start |-> 0, stop |-> 0]
    /\ data = <<>>
    /\ response = NoAttr
    /\ view = PagesView
    /\ schema_fields = NoAttr

\* The backend `name` is the next to run.
AtBackend(name) == pc = "filter" /\ filter_backends[backend] = name

\* GenericAPIView.filter_queryset: a backend that raises ends the request,
\* one that returns hands its query to the next backend, the last one to
\* the paginator.
Return(err, qs) ==
    IF err # NoError
    THEN /\ pc' = "rejected"
         /\ error' = err
         /\ UNCHANGED <<backend, queryset>>
    ELSE /\ pc' = IF backend = Len(filter_backends) THEN "paginate" ELSE "filter"
         /\ backend' = backend + 1
         /\ queryset' = qs
         /\ UNCHANGED error

FieldsFilter ==
    /\ AtBackend("FieldsFilter")
    /\ LET r == FieldsFilterResult(GET, queryset) IN Return(r.error, r.queryset)
    /\ UNCHANGED <<GET, site, filter_backends, settings, hooks, search_calls,
                   lookups, hook_calls, paginator, data, response,
                   view, schema_fields>>

OrderingFilter ==
    /\ AtBackend("OrderingFilter")
    /\ LET r == OrderingFilterResult(GET, queryset) IN Return(r.error, r.queryset)
    /\ UNCHANGED <<GET, site, filter_backends, settings, hooks, search_calls,
                   lookups, hook_calls, paginator, data, response,
                   view, schema_fields>>

\* The setting is read on every request; the state keeps it when the
\* request has `search`, the one case in which the code looks at it.
SearchFilter ==
    /\ AtBackend("SearchFilter")
    /\ \E setting \in SearchEnabledSettings :
         LET search_enabled == IF setting = NoAttr THEN TRUE ELSE AttrValue(setting)
         IN  \E outcome \in SearchOutcomes(queryset, ~Has(GET, "order")) :
               LET r == SearchFilterResult(GET, queryset, search_enabled, outcome)
               IN  /\ Return(r.error, r.queryset)
                   /\ settings' = IF Has(GET, "search")
                                  THEN [settings EXCEPT !.search_enabled = Attr(setting)]
                                  ELSE settings
                   /\ search_calls' = search_calls \o r.calls
    /\ UNCHANGED <<GET, site, filter_backends, hooks, lookups, hook_calls,
                   paginator, data, response,
                   view, schema_fields>>

ChildOfFilter ==
    /\ AtBackend("ChildOfFilter")
    /\ LET r == ChildOfFilterResult(FALSE, GET, queryset, site)
       IN  /\ Return(r.error, r.queryset)
           /\ lookups' = lookups \o r.lookups
    /\ UNCHANGED <<GET, site, filter_backends, settings, hooks, search_calls,
                   hook_calls, paginator, data, response,
                   view, schema_fields>>

RestrictedChildOfFilter ==
    /\ AtBackend("RestrictedChildOfFilter")
    /\ LET r == ChildOfFilterResult(TRUE, GET, queryset, site)
       IN  /\ Return(r.error, r.queryset)
           /\ lookups' = lookups \o r.lookups
    /\ UNCHANGED <<GET, site, filter_backends, settings, hooks, search_calls,
                   hook_calls, paginator, data, response,
                   view, schema_fields>>

DescendantOfFilter ==
    /\ AtBackend("DescendantOfFilter")
    /\ LET r == DescendantOfFilterResult(FALSE, GET, queryset, site)
       IN  /\ Return(r.error, r.queryset)
           /\ lookups' = lookups \o r.lookups
    /\ UNCHANGED <<GET, site, filter_backends, settings, hooks, search_calls,
                   hook_calls, paginator, data, response,
                   view, schema_fields>>

RestrictedDescendantOfFilter ==
    /\ AtBackend("RestrictedDescendantOfFilter")
    /\ LET r == DescendantOfFilterResult(TRUE, GET, queryset, site)
       IN  /\ Return(r.error, r.queryset)
           /\ lookups' = lookups \o r.lookups
    /\ UNCHANGED <<GET, site, filter_backends, settings, hooks, search_calls,
                   hook_calls, paginator, data, response,
                   view, schema_fields>>

\* Any hooks may be registered; the state keeps the list when the filter
\* asks for it.
ForExplorerFilter ==
    /\ AtBackend("ForExplorerFilter")
    /\ \E registered \in HookLists :
         LET r == ForExplorerFilterResult(GET, queryset, registered)
         IN  /\ Return(r.error, r.queryset)
             /\ hooks' = IF r.got_hooks THEN registered ELSE hooks
             /\ hook_calls' = hook_calls \o r.calls
    /\ UNCHANGED <<GET, site, filter_backends, settings, search_calls, lookups,
                   paginator, data, response,
                   view, schema_fields>>

PaginateQueryset ==
    /\ pc = "paginate"
    /\ \E setting \in LimitMaxSettings :
         LET r == PaginateResult(GET, queryset, setting)
         IN  /\ settings' = [settings EXCEPT !.limit_max = Attr(setting)]
             /\ IF r.error # NoError
                THEN /\ pc' = "rejected"
                     /\ error' = r.error
                     /\ UNCHANGED <<paginator, data>>
                ELSE /\ pc' = "respond"
                     /\ paginator' = [total_count |-> r.total_count,
                                      start |-> r.start, stop |-> r.stop]
                     /\ \E rows \in Rows(queryset) : data' = Slice(rows, r.start, r.stop)
                     /\ UNCHANGED error
    /\ UNCHANGED <<GET, site, filter_backends, backend, queryset, hooks,
                   search_calls, lookups, hook_calls, response,
                   view, schema_fields>>

GetPaginatedResponse ==
    /\ pc = "respond"
    /\ pc' = "done"
    /\ response' = Attr([meta |-> [total_count |-> AttrValue(paginator.total_count)],
                         items |-> data])
    /\ UNCHANGED <<GET, site, filter_backends, backend, queryset, error, settings,
                   hooks, search_calls, lookups, hook_calls, paginator, data,
                   view, schema_fields>>

Next ==
    \/ FieldsFilter
    \/ OrderingFilter
    \/ SearchFilter
    \/ ChildOfFilter
    \/ RestrictedChildOfFilter
    \/ DescendantOfFilter
    \/ RestrictedDescendantOfFilter
    \/ ForExplorerFilter

\* The filter backends of one request.
Spec == Init /\ [][Next]_vars

\* The paginator is given the query of an accepted request.
InitPagination ==
    /\ GET \in PaginationRequests
    /\ site \in {"siteA"}
    /\ filter_backends = <<>>
    /\ pc = "paginate"
    /\ backend = 1
    /\ queryset \in FilteredQuerySets
    /\ error = NoError
    /\ settings = [search_enabled |-> NoAttr, limit_max |-> NoAttr]
    /\ hooks = <<>>
    /\ search_calls = <<>>
    /\ lookups = <<>>
    /\ hook_calls = <<>>
    /\ paginator = [total_count |-> NoAttr, start |-> 0, stop |-> 0]
    /\ data = <<>>
    /\ response = NoAttr
    /\ view = PagesView
    /\ schema_fields = NoAttr

NextPagination ==
    \/ PaginateQueryset
    \/ GetPaginatedResponse

\* The pagination of one accepted request.
SpecPagination == InitPagination /\ [][NextPagination]_vars

\* FieldsFilter.get_schema_fields(view), called by the schema generator
GetSchemaFields ==
    /\ pc = "schema"
    /\ \E r \in SchemaFieldsResults(view) : schema_fields' = Attr(r)
    /\ pc' = "done"
    /\ UNCHANGED <<GET, site, filter_backends, backend, queryset, error, settings,
                   hooks, search_calls, lookups, hook_calls, paginator, data,
                   response, view>>

InitSchema ==
    /\ GET = <<>>
    /\ site \in {"siteA"}
    /\ filter_backends = <<"FieldsFilter">>
    /\ pc = "schema"
    /\ backend = 1
    /\ queryset = BaseQuerySet
    /\ error = NoError
    /\ settings = [search_enabled |-> NoAttr, limit_max |-> NoAttr]
    /\ hooks = <<>>
    /\ search_calls = <<>>
    /\ lookups = <<>>
    /\ hook_calls = <<>>
    /\ paginator = [total_count |-> NoAttr, start |-> 0, stop |-> 0]
    /\ data = <<>>
    /\ response = NoAttr
    /\ view \in Views
    /\ schema_fields = NoAttr

NextSchema == GetSchemaFields

\* The schema introspection of FieldsFilter for any view.
SpecSchema == InitSchema /\ [][NextSchema]_vars

\* ---------------------------------------------------------- the claims

\* The request has a parameter that names a tag-kind available field.
HasTagParam ==
    \E i \in 1..Len(GET) :
        GET[i][1] \in AvailableFieldSet /\ FieldKind(GET[i][1]) = "tag"

\* The filter backends have accepted the request.
Accepted == pc = "paginate"

\* C1: a request that has `search` and a parameter naming a tag-kind field
\* is never accepted by the filter backends, the search backend is never
\* called for it, and the query SearchFilter receives still carries the
\* tag-filtered annotation, whatever the other parameters and their order.
C1_TagFilterExcludesSearch ==
    (Has(GET, "search") /\ HasTagParam) =>
        /\ search_calls = <<>>
        /\ ~Accepted
        /\ (AtBackend("SearchFilter") => queryset.filtered_by_tag # NoAttr)

BothTreeParams == Has(GET, "child_of") /\ Has(GET, "descendant_of")

AtDescendantOf ==
    AtBackend("DescendantOfFilter") \/ AtBackend("RestrictedDescendantOfFilter")

AtChildOf == AtBackend("ChildOfFilter") \/ AtBackend("RestrictedChildOfFilter")

\* The place of the descendant-of filter among the view's backends.
DescendantOfIndex ==
    CHOOSE i \in 1..Len(filter_backends) :
        filter_backends[i] \in {"DescendantOfFilter", "RestrictedDescendantOfFilter"}

IncompatibleMsg == <<"filtering by {} with child_of is not supported", "descendant_of">>

\* C2: a request with both `child_of` and `descendant_of` never gets past
\* the descendant-of filter; when the child-of filter has accepted its
\* parameter, the descendant-of filter rejects with the incompatibility
\* error without looking up a page and without narrowing the query,
\* whatever the value of `descendant_of` is.
C2_ChildOfExcludesDescendantOf ==
    [][BothTreeParams =>
          /\ ~Accepted'
          /\ backend' <= DescendantOfIndex
          /\ AtDescendantOf =>
                /\ pc' = "rejected"
                /\ error'.msg = IncompatibleMsg
                /\ lookups' = lookups
                /\ queryset' = queryset]_vars

\* C2 witness: the incompatibility error for a malformed `descendant_of`.
C2_Witness ==
    /\ pc = "rejected"
    /\ error.msg = IncompatibleMsg
    /\ BothTreeParams
    /\ Param(GET, "descendant_of") = <<"1", ".", "0">>

\* `for_explorer` is present and not empty.
ForExplorerTruthy == Has(GET, "for_explorer") /\ Param(GET, "for_explorer") # <<>>

\* The view's tree filters are the site-restricted ones.
RestrictedView ==
    \E i \in 1..Len(filter_backends) : filter_backends[i] = "RestrictedChildOfFilter"

\* The page that the view's child-of filter resolves `child_of` to.
ResolvedParent ==
    AttrValue(ResolvePage(RestrictedView, site, Param(GET, "child_of"), "",
                          "child_of", "").page)

\* C3: ForExplorerFilter with `for_explorer` absent or empty calls no hook
\* and returns the query as given; with a truthy `for_explorer` and no
\* child-of annotation it rejects and calls no hook; with the annotation it
\* calls every registered hook once, in registration order, each with the
\* parent resolved by the child-of filter, the first with the query the
\* filter received, each next one with the query the previous one returned,
\* and it returns what the last hook returned.
C3_ForExplorerHooks ==
    [][AtBackend("ForExplorerFilter") =>
          IF ~ForExplorerTruthy
          THEN /\ pc' # "rejected"
               /\ hook_calls' = <<>>
               /\ queryset' = queryset
          ELSE IF queryset.filtered_by_child_of = NoAttr
          THEN /\ pc' = "rejected"
               /\ error'.msg = <<"filtering by for_explorer without child_of is not supported">>
               /\ hook_calls' = <<>>
          ELSE LET n == Len(hooks')
                   c == hook_calls'
               IN  /\ pc' # "rejected"
                   /\ Has(GET, "child_of")
                   /\ Len(c) = n
                   /\ \A k \in 1..n :
                        /\ c[k].hook = hooks'[k]
                        /\ c[k].parent_page = ResolvedParent
                        /\ c[k].queryset =
                             IF k = 1 THEN queryset
                             ELSE ApplyHook(hooks'[k - 1], ResolvedParent, c[k - 1].queryset)
                   /\ queryset' =
                        IF n = 0 THEN queryset
                        ELSE ApplyHook(hooks'[n], ResolvedParent, c[n].queryset)]_vars

\* C3 witness: two hooks, registered in the order 2, 1, have both run, and
\* the second was given fewer pages than the filter received.
C3_Witness ==
    /\ pc # "rejected"
    /\ hooks = <<2, 1>>
    /\ Len(hook_calls) = 2
    /\ hook_calls[2].queryset.ids # hook_calls[1].queryset.ids

\* paginate_queryset has returned the slice.
Paginated == pc \in {"respond", "done"}

\* paginate_queryset has run, and returned or raised.
PaginateRan == pc \in {"respond", "done", "rejected"}

\* The limit_max that paginate_queryset read.
ReadLimitMax == LimitMax(AttrValue(settings.limit_max))

\* A maximum limit is in force.
MaxExists == Truthy(ReadLimitMax)

\* The value of a count parameter is no integer or a negative one.
BadCount(name) ==
    Has(GET, name) /\ ~(IsInt(Param(GET, name)) /\ IntVal(Param(GET, name)) >= 0)

\* The offset a request asks for, and the limit of a request with `limit`.
RequestedOffset == IF Has(GET, "offset") THEN IntVal(Param(GET, "offset")) ELSE 0

RequestedLimit == IntVal(Param(GET, "limit"))

\* The limit paginate_queryset applied.
AppliedLimit == paginator.stop - paginator.start

\* C4: for an accepted request the paginator's total_count is the number
\* of items of the query it was given, whatever offset and limit are; the
\* returned items are the rows offset+1 .. offset+n of that query in its
\* order, n = max(0, min(limit, total_count - offset)); and the envelope
\* holds that total_count and those items.
C4_CountAndSlice ==
    Paginated =>
        LET total == Count(queryset)
            n == IF total <= RequestedOffset THEN 0
                 ELSE Min(AppliedLimit, total - RequestedOffset)
        IN  /\ paginator.total_count = Attr(total)
            /\ paginator.start = RequestedOffset
            /\ Len(data) = n
            /\ \E rows \in Rows(queryset) :
                 \A i \in 1..n : data[i] = rows[RequestedOffset + i]
            /\ pc = "done" =>
                 response = Attr([meta |-> [total_count |-> total], items |-> data])

\* C4 witness: a response whose slice starts inside the query and is cut
\* short by its end, so that total_count, limit and the number of items
\* are three different numbers.
C4_Witness ==
    /\ pc = "done"
    /\ RequestedOffset > 0
    /\ Len(data) > 0
    /\ Len(data) < AppliedLimit
    /\ AttrValue(paginator.total_count) > Len(data)

\* C5: paginate_queryset rejects, without counting or slicing, a bad
\* `offset` (naming offset), else a bad `limit` (naming limit), else a limit
\* above the maximum in force (naming the maximum); so an accepted request
\* has offset >= 0, limit >= 0 and a limit within the maximum, and a limit
\* is rejected as too high only when a maximum is in force.
C5_PaginationRejects ==
    PaginateRan =>
        /\ BadCount("offset") =>
              /\ pc = "rejected"
              /\ error.msg = <<"{} must be a positive integer", "offset">>
        /\ (~BadCount("offset") /\ BadCount("limit")) =>
              /\ pc = "rejected"
              /\ error.msg = <<"{} must be a positive integer", "limit">>
        /\ (~BadCount("offset") /\ ~BadCount("limit") /\ Has(GET, "limit")
              /\ MaxExists /\ RequestedLimit > ReadLimitMax.val) =>
              /\ pc = "rejected"
              /\ error.msg = <<"limit cannot be higher than %d", ReadLimitMax.val>>
        /\ pc = "rejected" =>
              /\ paginator.total_count = NoAttr
              /\ data = <<>>
              /\ error.msg[1] = "limit cannot be higher than %d" =>
                    /\ MaxExists
                    /\ Has(GET, "limit")
                    /\ RequestedLimit > ReadLimitMax.val
        /\ Paginated =>
              /\ RequestedOffset >= 0
              /\ paginator.start = RequestedOffset
              /\ AppliedLimit >= 0
              /\ Has(GET, "limit") => AppliedLimit = RequestedLimit
              /\ MaxExists => AppliedLimit <= ReadLimitMax.val

\* C5 witness: a negative limit is rejected although the offset is fine
\* and no maximum is in force.
C5_Witness ==
    /\ pc = "rejected"
    /\ Has(GET, "offset") /\ ~BadCount("offset")
    /\ Has(GET, "limit") /\ IsInt(Param(GET, "limit")) /\ RequestedLimit < 0
    /\ ~MaxExists
    /\ error.msg = <<"{} must be a positive integer", "limit">>

\* C6: a request without `limit` is never rejected because of its limit
\* and is given the lesser of 20 and the maximum in force, or 20 when there
\* is none; a request without `offset` is given the offset 0.
C6_Defaults ==
    PaginateRan =>
        /\ ~Has(GET, "limit") =>
              /\ pc = "rejected" => error.msg = <<"{} must be a positive integer", "offset">>
              /\ Paginated =>
                    AppliedLimit = IF MaxExists THEN Min(20, ReadLimitMax.val) ELSE 20
        /\ (~Has(GET, "offset") /\ Paginated) => paginator.start = 0

\* C6 witness: a request with neither parameter, under a maximum below 20,
\* is given that maximum as its limit.
C6_Witness ==
    /\ Paginated
    /\ GET = <<>>
    /\ MaxExists
    /\ ReadLimitMax.val < 20
    /\ AppliedLimit = ReadLimitMax.val

\* The query the filter backends hand over is one of those the paginator
\* is checked with: paginate_queryset reads its pages and its order only.
HandedToPaginator ==
    Accepted =>
        [queryset EXCEPT !.where = {}, !.filtered_by_tag = NoAttr,
                         !.filtered_by_child_of = NoAttr,
                         !.order_by = IF queryset.relevance THEN <<"id">> ELSE @,
                         !.standard_ordering = IF queryset.relevance THEN TRUE ELSE @]
            \in FilteredQuerySets

OrderIsRandom == Has(GET, "order") /\ Param(GET, "order") = Chars("random")

\* C7: OrderingFilter rejects `order=random` whenever the request has an
\* `offset` parameter, whatever its value, and then returns no query; without
\* `offset` it does not reject and returns the same pages in random order.
C7_RandomOrderExcludesOffset ==
    [][(AtBackend("OrderingFilter") /\ OrderIsRandom) =>
          IF Has(GET, "offset")
          THEN /\ pc' = "rejected"
               /\ error'.msg = <<"random ordering with offset is not supported">>
               /\ queryset' = queryset
               /\ queryset'.order_by # <<"?">>
          ELSE /\ pc' # "rejected"
               /\ queryset'.order_by = <<"?">>
               /\ queryset'.ids = queryset.ids
               /\ Rows(queryset') = Perms(queryset.ids)]_vars

\* C7 witness: a random order rejected for a malformed offset.
C7_Witness ==
    /\ pc = "rejected"
    /\ error.msg = <<"random ordering with offset is not supported">>
    /\ Param(GET, "offset") = <<"x">>

\* The parameter of the tree filter that runs next.
TreeParam == IF AtChildOf THEN "child_of" ELSE "descendant_of"

\* The tree filter that runs next gets to resolve its parameter.
ResolvesTreeParam ==
    \/ AtChildOf /\ Has(GET, "child_of")
    \/ AtDescendantOf /\ Has(GET, "descendant_of")
         /\ queryset.filtered_by_child_of = NoAttr

\* The step narrows the query to the children (child-of filter, which also
\* records the parent) or to the descendants of `page`.
NarrowsTo(page) ==
    /\ pc' # "rejected"
    /\ IF AtChildOf
       THEN /\ queryset'.ids = {p \in queryset.ids : ParentOf(p) = page}
            /\ queryset'.filtered_by_child_of = Attr(page)
       ELSE /\ queryset'.ids = {p \in queryset.ids : IsDescendant(p, page)}
            /\ queryset'.filtered_by_child_of = NoAttr

\* The step rejects with `msg` and leaves the query as it was.
RejectsWith(msg) ==
    /\ pc' = "rejected"
    /\ error'.msg = msg
    /\ queryset' = queryset

\* C8: the tree filters resolve their value so: `root` is the root page,
\* with no lookup; an integer >= 0 is looked up by id, and rejected with
\* "parent/ancestor page doesn't exist" when the lookup finds no page; a
\* negative integer and any other value are rejected with "must be a
\* positive integer", with no lookup.  A rejection leaves the query and
\* its annotation as they were; on success the child-of filter narrows to
\* the direct children and records the parent.
C8_TreeParamResolution ==
    [][ResolvesTreeParam =>
          LET v == Param(GET, TreeParam)
              missing == IF AtChildOf THEN "parent page doesn't exist"
                         ELSE "ancestor page doesn't exist"
              invalid == <<"{} must be a positive integer", TreeParam>>
          IN  IF v = <<"r", "o", "o", "t">>
              THEN /\ NarrowsTo(IF RestrictedView THEN SiteRootPage(site)
                                ELSE FirstRootNode)
                   /\ lookups' = lookups
              ELSE IF IsInt(v) /\ IntVal(v) >= 0
              THEN /\ lookups' = Append(lookups, IntVal(v))
                   /\ IF IntVal(v) \in (IF RestrictedView THEN PagesForSite(site) ELSE Pages)
                      THEN NarrowsTo(IntVal(v))
                      ELSE RejectsWith(<<missing>>)
              ELSE /\ RejectsWith(invalid)
                   /\ lookups' = lookups]_vars

\* C8 witness: a negative id rejected as no positive integer, with no lookup.
C8_Witness ==
    /\ pc = "rejected"
    /\ error.by \in {"DescendantOfFilter", "RestrictedDescendantOfFilter"}
    /\ error.msg = <<"{} must be a positive integer", "descendant_of">>
    /\ Param(GET, "descendant_of") = <<"-", "1">>
    /\ lookups = <<>>

\* What the other variant of the tree filter that runs next makes of the
\* same request and query.
OtherVariant ==
    IF AtChildOf THEN ChildOfFilterResult(~RestrictedView, GET, queryset, site)
    ELSE DescendantOfFilterResult(~RestrictedView, GET, queryset, site)

\* The page the variant resolves the value to, if it resolves it to one.
PageOf(restricted, v) == ResolvePage(restricted, site, v, "", "", "").page

\* C9: the restricted and the unrestricted tree filters differ in what
\* `root` is (the root page of the request's site, the global root) and
\* in where an id is looked up (a page outside the request's site is to the
\* restricted filter as missing as a page that does not exist).  Whenever
\* both resolve the value to the same page, or both fail to parse it, or
\* the parameter is absent or refused for the child-of annotation, the
\* two have the same outcome: the same error message, or the same query
\* with the same annotation.
C9_RestrictedVariants ==
    [][(AtChildOf \/ AtDescendantOf) =>
          LET other == OtherVariant
              v == Param(GET, TreeParam)
              missing == IF AtChildOf THEN "parent page doesn't exist"
                         ELSE "ancestor page doesn't exist"
              parses == v = <<"r", "o", "o", "t">> \/ (IsInt(v) /\ IntVal(v) >= 0)
          IN  /\ (ResolvesTreeParam /\ v = <<"r", "o", "o", "t">>) =>
                    NarrowsTo(IF RestrictedView THEN SiteRootPage(site) ELSE FirstRootNode)
              /\ (ResolvesTreeParam /\ RestrictedView /\ IsInt(v)
                    /\ IntVal(v) \in Pages \ PagesForSite(site)) =>
                    /\ RejectsWith(<<missing>>)
                    /\ other.error = NoError
              /\ (~ResolvesTreeParam
                    \/ ~parses
                    \/ (PageOf(TRUE, v) # NoAttr /\ PageOf(TRUE, v) = PageOf(FALSE, v))) =>
                    /\ (pc' = "rejected") = (other.error # NoError)
                    /\ pc' = "rejected" => error'.msg = other.error.msg
                    /\ pc' # "rejected" => queryset' = other.queryset]_vars

\* C9 witness: the restricted child-of filter has rejected, as missing, a
\* page of the other site.
C9_Witness ==
    /\ pc = "rejected"
    /\ error.by = "RestrictedChildOfFilter"
    /\ error.msg = <<"parent page doesn't exist">>
    /\ IntVal(Param(GET, "child_of")) \in Pages \ PagesForSite(site)

\* The request with the value of `order` replaced.
WithOrder(value) ==
    [i \in 1..Len(GET) |-> IF GET[i][1] = "order" THEN <<"order", value>> ELSE GET[i]]

ReverseSeq(r) == [i \in 1..Len(r) |-> r[Len(r) + 1 - i]]

\* C10: for an available field f, `order=-f` selects the pages `order=f`
\* selects, and the row sequences it may return are the reversed row
\* sequences of `order=f`: descending by f where those are ascending.  A
\* name that, one leading `-` stripped, is no available field is rejected
\* with the unknown-field error naming it, and the query keeps its order.
C10_ReverseOrdering ==
    [][(AtBackend("OrderingFilter") /\ Has(GET, "order") /\ ~OrderIsRandom) =>
          LET v == Param(GET, "order")
              descending == v # <<>> /\ Head(v) = "-"
              name == IF descending THEN Tail(v) ELSE v
              other == OrderingFilterResult(
                           WithOrder(IF descending THEN name ELSE <<"-">> \o name),
                           queryset)
          IN  IF \E f \in AvailableFieldSet : Chars(f) = name
              THEN LET f == CHOOSE g \in AvailableFieldSet : Chars(g) = name
                   IN  /\ pc' # "rejected"
                       /\ other.error = NoError
                       /\ queryset'.ids = queryset.ids
                       /\ other.queryset.ids = queryset.ids
                       /\ Rows(queryset') = {ReverseSeq(r) : r \in Rows(other.queryset)}
                       /\ \A r \in Rows(queryset') : Sorted(r, f, ~descending)
                       /\ \A r \in Rows(other.queryset) : Sorted(r, f, descending)
              ELSE /\ pc' = "rejected"
                   /\ error'.msg = <<"cannot order by '%s' (unknown field)", name>>
                   /\ queryset' = queryset]_vars

\* C10 witness: OrderingFilter has put all five pages, of which some share
\* a title, in descending order of title.
C10_Witness ==
    /\ pc \in {"filter", "paginate"}
    /\ backend > 1
    /\ filter_backends[backend - 1] = "OrderingFilter"
    /\ Has(GET, "order")
    /\ Param(GET, "order") = <<"-">> \o Chars("title")
    /\ queryset.order_by = <<"title">>
    /\ ~queryset.standard_ordering
    /\ Cardinality(queryset.ids) = 5

\* The tokens of a comma-separated value: the tags the parameter lists.
ListedTags(value) == {Split(value)[k] : k \in 1..Len(Split(value))}

\* The constraint the i-th parameter of the request puts on page p: none
\* when its name is not an available field, every listed tag for a
\* tag-kind field, an exact match of the converted value otherwise.
ParamConstraint(p, i) ==
    LET name == GET[i][1]
        value == GET[i][2]
    IN  \/ name \notin AvailableFieldSet
        \/ /\ name \in AvailableFieldSet
           /\ CASE FieldKind(name) = "tag" -> ListedTags(value) \subseteq TagsOf(p)
                [] FieldKind(name) = "integer" -> p = IntVal(value)
                [] FieldKind(name) = "boolean" -> Live(p) = (Lower(value) \in {Chars("true"), <<"1">>})
                [] OTHER -> TitleOf(p) = value

\* FieldsFilter runs in this step and returns a query.
FieldsFilterReturns == AtBackend("FieldsFilter") /\ pc' # "rejected"

\* The items of the query FieldsFilter returns are exactly the items of the
\* query it received that meet the constraint of every parameter: every
\* listed tag (AND) for a tag parameter, nothing for an unknown name.
C11_ItemsReturned ==
    [][FieldsFilterReturns =>
         queryset'.ids = {p \in queryset.ids :
                             \A i \in 1..Len(GET) : ParamConstraint(p, i)}]_vars

\* C11: for a tag-kind field and a comma-separated value, FieldsFilter
\* returns exactly the items that have every listed tag, combined with the
\* constraints of the other field parameters (names that are not available
\* fields add none), and the query it returns carries the tag-filtered
\* annotation.
C11_TagFilterAnnotates ==
    [][FieldsFilterReturns =>
         /\ queryset'.ids = {p \in queryset.ids :
                                \A i \in 1..Len(GET) : ParamConstraint(p, i)}
         /\ (HasTagParam => queryset'.filtered_by_tag = Attr(TRUE))]_vars

RECURSIVE FirstOccurrences(_, _)
\* The names of s in the order of their first occurrence, after those in seen.
FirstOccurrences(s, seen) ==
    IF s = <<>> THEN <<>>
    ELSE IF Head(s) \in seen THEN FirstOccurrences(Tail(s), seen)
    ELSE <<Head(s)>> \o FirstOccurrences(Tail(s), seen \cup {Head(s)})

\* The available storage-backed fields of the view, in the order in which
\* the view declares them.
DeclaredDbFields == FirstOccurrences(GetAvailableFields(view, TRUE), {})

\* The schema type the kind of a field determines.
SchemaTypeOf(f) ==
    CASE f = "id" -> "Integer" [] f = "live" -> "Boolean"
      [] f \in {"title", "tags"} -> "String"

\* d is the descriptor of field f: optional, query-located, with the name,
\* the type of the kind and the description of the kind.
DescribesField(d, f) ==
    /\ d.name = f
    /\ d.required = FALSE
    /\ d.location = "query"
    /\ d.schema.cls = SchemaTypeOf(f)
    /\ d.schema.description =
         IF f = "tags" THEN "Filter results using a comma-separated list of tags."
         ELSE "Filter results using an exact match."

\* get_schema_fields has returned.
SchemaReturned == schema_fields # NoAttr

\* The descriptors get_schema_fields returns are, in some order, exactly one
\* per available storage-backed field of the view, each as its field kind
\* determines, and none when the view has no model.
C12_SchemaFieldSet ==
    SchemaReturned =>
        LET s == AttrValue(schema_fields)
        IN  IF view.model = NoAttr THEN s = <<>>
            ELSE /\ Len(s) = Len(DeclaredDbFields)
                 /\ \A k \in 1..Len(DeclaredDbFields) :
                        \E i \in 1..Len(s) : DescribesField(s[i], DeclaredDbFields[k])

\* C12: get_schema_fields returns exactly one descriptor per available
\* storage-backed field of the view's model, in the order in which the view
\* declares the fields, each optional, query-located, with the field's name,
\* the schema type of its kind and the description of its kind; a view
\* without a model yields the empty list.
C12_SchemaFieldsInDeclaredOrder ==
    SchemaReturned =>
        LET s == AttrValue(schema_fields)
        IN  IF view.model = NoAttr THEN s = <<>>
            ELSE /\ Len(s) = Len(DeclaredDbFields)
                 /\ \A i \in 1..Len(s) : DescribesField(s[i], DeclaredDbFields[i])

====
